---- MODULE Spec2Model ----
(***************************************************************************)
(* Model of src/src/tools/carepartner-helper.ts: the registration gate of  *)
(* the search_care_jobs tool and its bounded external call.                *)
(*                                                                         *)
(* The Korean string literals of the source are written here in ASCII      *)
(* (an English rendering); every literal is kept as one named definition.  *)
(***************************************************************************)
EXTENDS Integers, Sequences, FiniteSets, TLC

(***************************************************************************)
(* Bounds of the model.                                                    *)
(***************************************************************************)
MaxInvocations == 2
MaxRegisterCalls == 2

Invocations == 1..MaxInvocations

(***************************************************************************)
(* JavaScript values.                                                      *)
(***************************************************************************)
Undefined == [t |-> "undefined"]
Null == [t |-> "null"]
Str(s) == [t |-> "string", s |-> s]
Num(n) == [t |-> "number", n |-> n]
Bool(b) == [t |-> "boolean", b |-> b]
Obj(f) == [t |-> "object", f |-> f]
Arr(a) == [t |-> "array", a |-> a]
\* an instance of Error: its name and its message
Err(name, message) == [t |-> "error", name |-> name, message |-> message]

IsString(v) == v.t = "string"
IsNullish(v) == v.t \in {"undefined", "null"}
\* error instanceof Error
IsError(v) == v.t = "error"

\* ToBoolean, as used by `!x`
Truthy(v) ==
    CASE v.t = "undefined" -> FALSE
      [] v.t = "null" -> FALSE
      [] v.t = "string" -> v.s # ""
      [] v.t = "number" -> v.n # 0
      [] v.t = "boolean" -> v.b
      [] OTHER -> TRUE

\* an evaluation that returns v, and one that throws v
Return(v) == [thrown |-> FALSE, v |-> v]
Throw(v) == [thrown |-> TRUE, v |-> v]

\* ToPrimitive fails: an object whose own toString is not a function (no
\* value here is a function) falls back on valueOf, which gives the object
\* itself; so does an array that holds such an object
RECURSIVE ToPrimitiveThrows(_)
ToPrimitiveThrows(v) ==
    CASE v.t = "object" -> "toString" \in DOMAIN v.f
      [] v.t = "array" -> \E k \in DOMAIN v.a : ToPrimitiveThrows(v.a[k])
      [] OTHER -> FALSE

\* the string of a value whose conversion completes: an array is its
\* elements joined by commas (null and undefined elements are empty), an
\* Error is "name: message", or the one of the two that is not empty
RECURSIVE StringOf(_)
StringOf(v) ==
    CASE v.t = "undefined" -> "undefined"
      [] v.t = "null" -> "null"
      [] v.t = "string" -> v.s
      [] v.t = "number" -> ToString(v.n)
      [] v.t = "boolean" -> (IF v.b THEN "true" ELSE "false")
      [] v.t = "error" -> IF v.message = "" THEN v.name
                          ELSE IF v.name = "" THEN v.message
                          ELSE v.name \o ": " \o v.message
      [] v.t = "array" ->
             LET Elem(k) == IF v.a[k].t \in {"undefined", "null"} THEN ""
                            ELSE StringOf(v.a[k])
                 RECURSIVE Join(_)
                 Join(k) == IF k = 0 THEN ""
                            ELSE IF k = 1 THEN Elem(1)
                            ELSE Join(k - 1) \o "," \o Elem(k)
             IN Join(Len(v.a))
      [] OTHER -> "[object Object]"

\* ToString, as used by a template literal `${v}`: it returns the string or
\* throws.  The source applies it to the credential and to the location,
\* which are strings or undefined, where it returns.
JSToString(v) ==
    IF ToPrimitiveThrows(v)
    THEN Throw(Err("TypeError", "Cannot convert object to primitive value"))
    ELSE Return(Str(StringOf(v)))

\* v.k for a property name k, v not nullish: the property of an object, the
\* name or the message of an Error (a primitive or an array has none of the
\* names read here)
GetProp(v, k) ==
    CASE v.t = "object" -> IF k \in DOMAIN v.f THEN v.f[k] ELSE Undefined
      [] v.t = "error" -> IF k = "message" THEN Str(v.message)
                          ELSE IF k = "name" THEN Str(v.name)
                          ELSE Undefined
      [] OTHER -> Undefined

\* v[n] for an index n, v not nullish: the element of an array, the property
\* named by the index of an object, the character of a string
GetIndex(v, n) ==
    CASE v.t = "array" -> IF n + 1 \in DOMAIN v.a THEN v.a[n + 1] ELSE Undefined
      [] v.t = "object" -> IF ToString(n) \in DOMAIN v.f THEN v.f[ToString(n)]
                           ELSE Undefined
      [] v.t = "string" -> IF n + 1 \in 1..Len(v.s) THEN Str(SubSeq(v.s, n + 1, n + 1))
                           ELSE Undefined
      [] OTHER -> Undefined

\* v?.k and v?.[n]
OptGetProp(v, k) == IF IsNullish(v) THEN Undefined ELSE GetProp(v, k)
OptGetIndex(v, n) == IF IsNullish(v) THEN Undefined ELSE GetIndex(v, n)

(***************************************************************************)
(* Constants of the source.                                                *)
(***************************************************************************)
TIMEOUT_MS == 25000
ToolName == "search_care_jobs"
ToolDescription == "Searches care jobs of a given region in the Korean service CarePartner."
LocationDescription == "address of the region to search"
openRouterUrl == "https://openrouter.ai/api/v1/chat/completions"
ModelName == "perplexity/sonar-pro"
MaxTokens == 500
SystemPrompt ==
    "You are an expert in searching and analyzing care job information in Korea. Find care partner job listings near the given address in 'https://carepartner.kr' and provide them in a structured format. Each job listing must follow this format:\n\n"
    \o "1. Job Title\n"
    \o "2. Work Location\n"
    \o "3. Working Hours\n"
    \o "4. Salary Conditions\n"
    \o "5. Job URL in 'https://carepartner.kr' (must be included)\n\n"
    \o "If URL is not available, display 'URL not available'. Keep the response simple and clear."
MissingKeyWarning ==
    "OPENROUTER_API_KEY is not in the .env file. The 'search_care_jobs' tool is not registered."
ApologyPreamble ==
    "Sorry. A problem occurred while searching for jobs. Please try again later.\nError: "
UnknownErrorText == "unknown error"
ExtractFailedText == "Could not extract the message from the OpenRouter response."
StructureErrorLabel == "OpenRouter response structure error:"
SearchErrorLabel == "Error while searching for jobs:"

\* `Request timed out. (${timeout}ms)`
TimeoutMessage(timeout) == "Request timed out. (" \o ToString(timeout) \o "ms)"

\* variant: the message without the body text
HttpErrorMessageNoBody(status, statusText, errorText) ==
    "OpenRouter API request failed: " \o ToString(status) \o " " \o statusText

\* `OpenRouter API request failed: ${status} ${statusText} - ${errorText}`
HttpErrorMessage(status, statusText, errorText) ==
    "OpenRouter API request failed: " \o ToString(status) \o " " \o statusText
        \o " - " \o errorText

(***************************************************************************)
(* Inputs: the values of the environment variable, the arguments the host  *)
(* passes, and what the upstream can answer.                               *)
(***************************************************************************)
CredValues == {Undefined, Str(""), Str("sk-or-A")}

\* what the environment changes the variable to after the module has loaded:
\* it deletes it, or sets a key
EnvChanges == {Undefined, Str("sk-or-A")}

ArgInputs ==
    { Obj([location |-> Str("Seoul Gangnam-gu")]),
      Obj([location |-> Str("")]),
      Obj(<<>>) }

\* what response.ok is for a status
ResponseOk(status) == status >= 200 /\ status < 300


\* the bodies the upstream can send, as the text on the wire
RawOk == "{\"choices\":[{\"message\":{\"content\":\"1. Title...\"}}]}"
RawEmptyContent == "{\"choices\":[{\"message\":{\"content\":\"\"}}]}"
RawNumberContent == "{\"choices\":[{\"message\":{\"content\":42}}]}"
RawNoChoices == "{\"choices\":[]}"
RawEmptyObject == "{}"
RawNull == "null"
RawNotJson == "server error"

RawBodies ==
    { RawOk, RawEmptyContent, RawNumberContent, RawNoChoices, RawEmptyObject, RawNull,
      RawNotJson }

\* the status lines of the upstream, and the bodies that follow each
StatusLines ==
    { [status |-> 200, statusText |-> "OK"],
      [status |-> 500, statusText |-> "Internal Server Error"] }

BodiesAfter(status) == IF status = 200 THEN RawBodies ELSE {RawNotJson}

Completion(content) ==
    Obj([choices |-> Arr(<<Obj([message |-> Obj([content |-> content])])>>)])

\* the texts JSON.parse is given here: those that are JSON, with their value,
\* and those that are not
JsonTexts == RawBodies
InvalidJsonTexts == {RawNotJson}

JsonValue(raw) ==
    CASE raw = RawOk -> Completion(Str("1. Title..."))
      [] raw = RawEmptyContent -> Completion(Str(""))
      [] raw = RawNumberContent -> Completion(Num(42))
      [] raw = RawNoChoices -> Obj([choices |-> Arr(<<>>)])
      [] raw = RawEmptyObject -> Obj(<<>>)
      [] raw = RawNull -> Null

\* the message of the SyntaxError of JSON.parse for a text that is not JSON:
\* it depends on the version of the engine (Node 18 and before, Node 20 and
\* after)
JsonSyntaxMessages(raw) ==
    CASE raw = RawNotJson ->
             { "Unexpected token s in JSON at position 0",
               "Unexpected token 's', \"server error\" is not valid JSON" }

\* JSON.parse over JsonTexts: the outcomes it can have
JsonParse(raw) ==
    IF raw \in InvalidJsonTexts
    THEN {Throw(Err("SyntaxError", m)) : m \in JsonSyntaxMessages(raw)}
    ELSE {Return(JsonValue(raw))}

\* response.json() once the body is read: node-fetch 3 hands on what
\* JSON.parse does, node-fetch 2 rejects with a FetchError that wraps the
\* message of the SyntaxError; the source does not fix the version
ResponseJson(raw) ==
    JsonParse(raw) \cup
    {Throw(Err("FetchError", "invalid json response body at " \o openRouterUrl
                                 \o " reason: " \o p.v.message)) :
         p \in {q \in JsonParse(raw) : q.thrown}}

\* the faults of the transport while the request is in flight: node-fetch
\* wraps every fault of the request as a FetchError, and names a fault
\* AbortError only when the signal it was given is aborted (AbortFault)
TransportFaults ==
    { Err("FetchError", "request to " \o openRouterUrl \o " failed, reason: " \o reason) :
          reason \in {"socket hang up", "read ECONNRESET"} }

\* the fault of the transport when the request is aborted through its signal
AbortFault == Err("AbortError", "The user aborted a request.")

\* the faults of reading a response body
BodyReadFaults ==
    { Err("FetchError", "Invalid response body while trying to fetch "
                            \o openRouterUrl \o ": aborted") }

\* the faults of reading a response body through response.json(): those
\* above, which some versions wrap as a fault of the JSON body
JsonBodyReadFaults ==
    BodyReadFaults \cup
    { Err("FetchError", "invalid json response body at " \o openRouterUrl
                            \o " reason: " \o e.message) : e \in BodyReadFaults }

(***************************************************************************)
(* The pure parts of the source.                                           *)
(***************************************************************************)
\* variant: a schema that lets every argument through
SchemaAcceptsAnything(a) == TRUE

\* { location: z.string() }: the arguments the registered schema lets through
SchemaAccepts(a) == IsString(GetProp(a, "location"))

\* variant: a gate without the test of the credential
GateOpenAlways(key) == TRUE

\* !openRouterApiKey is false: the gate lets the registration through
GateOpen(key) == Truthy(key)

\* variant: a handler that reads the environment at each call
BoundCredentialReRead(key, environment) == environment

\* the credential the handler puts in the Authorization header: the module
\* constant its closure captures
BoundCredential(key, environment) == key

ToolDescriptor ==
    [ name |-> ToolName,
      description |-> ToolDescription,
      inputSchema |-> [location |-> [type |-> "string", description |-> LocationDescription]] ]

\* the user prompt, interpolated with the location
UserPrompt(location) ==
    "Find 3 care partner job listings near \"" \o JSToString(location).v.s
        \o "\" in 'https://carepartner.kr'. Provide the following information for each job listing: 1) Job Title 2) Work Location 3) Working Hours 4) Salary Conditions 5) Job URL"

\* the outbound request of one call (temperature 0.7 is written as 7/10)
UpstreamRequest(credential, location) ==
    [ url |-> openRouterUrl,
      method |-> "POST",
      headers |-> [ Authorization |-> "Bearer " \o JSToString(credential).v.s,
                    ContentType |-> "application/json" ],
      body |-> [ model |-> ModelName,
                 messages |-> << [role |-> "system", content |-> SystemPrompt],
                                 [role |-> "user", content |-> UserPrompt(location)] >>,
                 max_tokens |-> MaxTokens,
                 temperature |-> <<7, 10>> ] ]

\* variant: one controller shared by every call
ControllerShared(i) == 1

\* const controller = new AbortController(): each call of fetchWithTimeout
\* makes its own
ControllerOf(i) == i

\* clearTimeout(timeoutId)
ClearTimeout(t) == IF t = "pending" THEN "cleared" ELSE t

\* variant: a return that leaves the timer armed
TimerAfterFetchLeaked(t) == t

\* fetchWithTimeout, fetch fulfilled: the timer after it
TimerAfterFetch(t) == ClearTimeout(t)

\* variant: a catch that leaves the timer armed
TimerAfterCatchLeaked(t) == t

\* fetchWithTimeout, catch: the timer after it
TimerAfterCatch(t) == ClearTimeout(t)

\* variant: a catch that rethrows every fault as it is
FetchCatchRethrow(error, timeout) == error

\* variant: a catch that reports every fault of fetch as a timeout
FetchCatchAllTimeout(error, timeout) == Err("Error", TimeoutMessage(timeout))

\* fetchWithTimeout, catch: the fault it throws for the fault of fetch
FetchCatch(error, timeout) ==
    IF IsError(error) /\ error.name = "AbortError"
    THEN Err("Error", TimeoutMessage(timeout))
    ELSE error

\* console.error(label, arg)
ErrorLog(label, arg) == [level |-> "error", label |-> label, arg |-> arg]

ToolResult(text) == [content |-> << [type |-> "text", text |-> text] >>]

\* variant: a catch that reports the name of the fault, not its message
HandlerCatchName(error) ==
    [ log |-> << ErrorLog(SearchErrorLabel, error) >>,
      result |-> ToolResult(Str(ApologyPreamble \o
                     (IF IsError(error) THEN error.name ELSE UnknownErrorText))) ]

\* the outer catch of the handler: what it logs and what it returns
HandlerCatch(error) ==
    [ log |-> << ErrorLog(SearchErrorLabel, error) >>,
      result |-> ToolResult(Str(ApologyPreamble \o
                     (IF IsError(error) THEN error.message ELSE UnknownErrorText))) ]

\* data.choices?.[0]?.message?.content
AssistantMessage(data) ==
    IF IsNullish(data)
    THEN Throw(Err("TypeError", "Cannot read properties of " \o JSToString(data).v.s
                                    \o " (reading 'choices')"))
    ELSE Return(OptGetProp(OptGetProp(OptGetIndex(GetProp(data, "choices"), 0),
                                      "message"), "content"))

\* the handler after response.json() has resolved with data
AfterJson(data) ==
    LET m == AssistantMessage(data) IN
    IF m.thrown THEN HandlerCatch(m.v)
    ELSE IF ~Truthy(m.v)
         THEN LET c == HandlerCatch(Err("Error", ExtractFailedText)) IN
              [ log |-> << ErrorLog(StructureErrorLabel, data) >> \o c.log,
                result |-> c.result ]
         ELSE [ log |-> << >>, result |-> ToolResult(m.v) ]

\* the handler after response.text() has resolved with errorText
AfterText(status, statusText, errorText) ==
    HandlerCatch(Err("Error", HttpErrorMessage(status, statusText, errorText)))

(***************************************************************************)
(* The state.                                                              *)
(***************************************************************************)
VARIABLES
    env,              \* process.env.OPENROUTER_API_KEY
    openRouterApiKey, \* the module constant read from it when the module loads
    toolTable,        \* the tool table of the host: the descriptors registered
    warnings,         \* what console.warn was given
    regOutcomes,      \* one entry per call of registerSearchCareJobsTool
    pc,               \* where each invocation is
    args,             \* the arguments of each invocation
    timer,            \* the deadline timer of each invocation
    aborted,          \* controller.signal.aborted of each invocation
    fetchState,       \* the promise of fetch of each invocation
    requests,         \* the outbound requests each invocation has issued
    response,         \* the response (status line) each invocation has received
    bodyState,        \* the read of the response body of each invocation
    body,             \* the response body each invocation has read
    rejection,        \* the reason with which a promise of each invocation rejected
    results,          \* the ToolResults each invocation has returned
    errlog            \* what console.error was given by each invocation

regVars == <<toolTable, warnings, regOutcomes>>
callVars == <<pc, args, timer, aborted, fetchState, requests, response, bodyState,
              body, rejection, results, errlog>>
vars == <<env, openRouterApiKey, toolTable, warnings, regOutcomes, pc, args, timer,
          aborted, fetchState, requests, response, bodyState, body, rejection, results,
          errlog>>

\* the state once the module is loaded: dotenv.config() has run and the
\* credential has been read
Init ==
    /\ env \in CredValues
    /\ openRouterApiKey = env
    /\ toolTable = << >>
    /\ warnings = << >>
    /\ regOutcomes = << >>
    /\ pc = [i \in Invocations |-> "Idle"]
    /\ args = [i \in Invocations |-> Undefined]
    /\ timer = [i \in Invocations |-> "unset"]
    /\ aborted = [i \in Invocations |-> FALSE]
    /\ fetchState = [i \in Invocations |-> "unset"]
    /\ requests = [i \in Invocations |-> << >>]
    /\ response = [i \in Invocations |-> << >>]
    /\ bodyState = [i \in Invocations |-> "unset"]
    /\ body = [i \in Invocations |-> << >>]
    /\ rejection = [i \in Invocations |-> << >>]
    /\ results = [i \in Invocations |-> << >>]
    /\ errlog = [i \in Invocations |-> << >>]

Registered(table) == \E k \in DOMAIN table : table[k].name = ToolName

(***************************************************************************)
(* The environment changes the configuration state.                        *)
(***************************************************************************)
SetEnv(v) ==
    /\ v # env
    /\ env' = v
    /\ UNCHANGED <<openRouterApiKey, regVars, callVars>>

(***************************************************************************)
(* server.tool(name, description, schema, handler) of the host: it adds    *)
(* the tool, and refuses a name the table already has.                     *)
(***************************************************************************)
ServerTool(table, descriptor) ==
    IF \E k \in DOMAIN table : table[k].name = descriptor.name
    THEN [table |-> table, outcome |-> "threw"]
    ELSE [table |-> Append(table, descriptor), outcome |-> "returned"]

(***************************************************************************)
(* registerSearchCareJobsTool()                                            *)
(***************************************************************************)
Register ==
    /\ Len(regOutcomes) < MaxRegisterCalls
    /\ IF ~GateOpen(openRouterApiKey)
       THEN /\ warnings' = Append(warnings, MissingKeyWarning)
            /\ regOutcomes' = Append(regOutcomes, "returned")
            /\ UNCHANGED toolTable
       ELSE LET r == ServerTool(toolTable, ToolDescriptor) IN
            /\ toolTable' = r.table
            /\ regOutcomes' = Append(regOutcomes, r.outcome)
            /\ UNCHANGED warnings
    /\ UNCHANGED <<env, openRouterApiKey, callVars>>

(***************************************************************************)
(* The host invokes the tool: it validates the arguments against the       *)
(* registered schema and, if they pass, runs the handler up to its first   *)
(* await (fetchWithTimeout arms the timer and issues the request).         *)
(***************************************************************************)
Invoke(i, a) ==
    /\ Registered(toolTable)
    /\ pc[i] = "Idle"
    /\ \A j \in Invocations : j < i => pc[j] # "Idle"
    /\ args' = [args EXCEPT ![i] = a]
    /\ IF SchemaAccepts(a)
       THEN /\ pc' = [pc EXCEPT ![i] = "RequestSent"]
            /\ timer' = [timer EXCEPT ![i] = "pending"]
            /\ fetchState' = [fetchState EXCEPT ![i] = "pending"]
            /\ requests' = [requests EXCEPT ![i] =
                   Append(@, UpstreamRequest(BoundCredential(openRouterApiKey, env),
                                             GetProp(a, "location")))]
       ELSE /\ pc' = [pc EXCEPT ![i] = "Rejected"]
            /\ UNCHANGED <<timer, fetchState, requests>>
    /\ UNCHANGED <<env, openRouterApiKey, regVars, aborted, response, bodyState,
                   body, rejection, results, errlog>>

\* the handler returns: what it logged and the ToolResult
Finish(i, out) ==
    /\ pc' = [pc EXCEPT ![i] = "ResultEmitted"]
    /\ results' = [results EXCEPT ![i] = Append(@, out.result)]
    /\ errlog' = [errlog EXCEPT ![i] = @ \o out.log]

(***************************************************************************)
(* fetch fulfils with a response (its status line has arrived, its body    *)
(* has not): fetchWithTimeout disarms the timer and returns it; the        *)
(* handler starts reading the body.                                        *)
(***************************************************************************)
FetchFulfil(i, r) ==
    /\ pc[i] = "RequestSent"
    /\ fetchState' = [fetchState EXCEPT ![i] = "fulfilled"]
    /\ timer' = [timer EXCEPT ![i] = TimerAfterFetch(@)]
    /\ response' = [response EXCEPT ![i] = << r >>]
    /\ bodyState' = [bodyState EXCEPT ![i] = "reading"]
    /\ pc' = [pc EXCEPT ![i] =
           IF ResponseOk(r.status) THEN "AwaitJson" ELSE "AwaitText"]
    /\ UNCHANGED <<env, openRouterApiKey, regVars, args, aborted, requests, body,
                   rejection, results, errlog>>

(***************************************************************************)
(* fetch rejects with a fault of the transport: the catch of               *)
(* fetchWithTimeout, then the catch of the handler.                        *)
(***************************************************************************)
FetchReject(i, error) ==
    /\ pc[i] = "RequestSent"
    /\ fetchState' = [fetchState EXCEPT ![i] = "rejected"]
    /\ timer' = [timer EXCEPT ![i] = TimerAfterCatch(@)]
    /\ rejection' = [rejection EXCEPT ![i] = << error >>]
    /\ Finish(i, HandlerCatch(FetchCatch(error, TIMEOUT_MS)))
    /\ UNCHANGED <<env, openRouterApiKey, regVars, args, aborted, requests, response,
                   bodyState, body>>

(***************************************************************************)
(* The deadline timer fires: controller.abort(). A request in flight is    *)
(* rejected with the abort fault; a body being read through the aborted    *)
(* signal fails with it; after the result nothing is left to abort.        *)
(***************************************************************************)
TimerFire(i) ==
    /\ timer[i] = "pending"
    /\ aborted' = [aborted EXCEPT ![ControllerOf(i)] = TRUE]
    /\ CASE pc[i] = "RequestSent" ->
              /\ timer' = [timer EXCEPT ![i] = TimerAfterCatch("fired")]
              /\ fetchState' = [fetchState EXCEPT ![i] = "rejected"]
              /\ rejection' = [rejection EXCEPT ![i] = << AbortFault >>]
              /\ Finish(i, HandlerCatch(FetchCatch(AbortFault, TIMEOUT_MS)))
              /\ UNCHANGED bodyState
         [] pc[i] \in {"AwaitJson", "AwaitText"} ->
              /\ timer' = [timer EXCEPT ![i] = "fired"]
              /\ bodyState' = [bodyState EXCEPT ![i] = "failed"]
              /\ rejection' = [rejection EXCEPT ![i] = << AbortFault >>]
              /\ Finish(i, HandlerCatch(AbortFault))
              /\ UNCHANGED fetchState
         [] OTHER ->
              /\ timer' = [timer EXCEPT ![i] = "fired"]
              /\ UNCHANGED <<pc, results, errlog, fetchState, bodyState, rejection>>
    /\ UNCHANGED <<env, openRouterApiKey, regVars, args, requests, response, body>>

(***************************************************************************)
(* response.text() resolves with the body: the handler throws the HTTP     *)
(* fault and its catch returns it.                                         *)
(***************************************************************************)
TextResolve(i, raw) ==
    /\ pc[i] = "AwaitText"
    /\ raw \in BodiesAfter(response[i][1].status)
    /\ bodyState' = [bodyState EXCEPT ![i] = "done"]
    /\ body' = [body EXCEPT ![i] = << raw >>]
    /\ LET r == response[i][1] IN
       Finish(i, AfterText(r.status, r.statusText, raw))
    /\ UNCHANGED <<env, openRouterApiKey, regVars, args, timer, aborted, fetchState,
                   requests, response, rejection>>

(***************************************************************************)
(* response.json() settles once the body is read: it resolves with the     *)
(* parsed body, or rejects with the fault of the parser.                   *)
(***************************************************************************)
JsonSettle(i, raw) ==
    /\ pc[i] = "AwaitJson"
    /\ raw \in BodiesAfter(response[i][1].status)
    /\ bodyState' = [bodyState EXCEPT ![i] = "done"]
    /\ body' = [body EXCEPT ![i] = << raw >>]
    /\ \E p \in ResponseJson(raw) :
       /\ rejection' = [rejection EXCEPT ![i] = IF p.thrown THEN << p.v >> ELSE << >>]
       /\ Finish(i, IF p.thrown THEN HandlerCatch(p.v) ELSE AfterJson(p.v))
    /\ UNCHANGED <<env, openRouterApiKey, regVars, args, timer, aborted, fetchState,
                   requests, response>>

(***************************************************************************)
(* Reading the body fails: response.text() or response.json() rejects.     *)
(***************************************************************************)
BodyReject(i, error) ==
    /\ pc[i] \in {"AwaitJson", "AwaitText"}
    /\ error \in (IF pc[i] = "AwaitJson" THEN JsonBodyReadFaults ELSE BodyReadFaults)
    /\ bodyState' = [bodyState EXCEPT ![i] = "failed"]
    /\ rejection' = [rejection EXCEPT ![i] = << error >>]
    /\ Finish(i, HandlerCatch(error))
    /\ UNCHANGED <<env, openRouterApiKey, regVars, args, timer, aborted, fetchState,
                   requests, response, body>>

Next ==
    \/ \E v \in EnvChanges : SetEnv(v)
    \/ Register
    \/ \E i \in Invocations, a \in ArgInputs : Invoke(i, a)
    \/ \E i \in Invocations, r \in StatusLines : FetchFulfil(i, r)
    \/ \E i \in Invocations, error \in TransportFaults : FetchReject(i, error)
    \/ \E i \in Invocations : TimerFire(i)
    \/ \E i \in Invocations, raw \in RawBodies : TextResolve(i, raw)
    \/ \E i \in Invocations, raw \in RawBodies : JsonSettle(i, raw)
    \/ \E i \in Invocations, error \in JsonBodyReadFaults : BodyReject(i, error)

Spec == Init /\ [][Next]_vars

\* A timer that is armed fires unless it is cleared; the upstream owes nothing.
FairSpec == Spec /\ \A i \in Invocations : WF_vars(TimerFire(i))

(***************************************************************************)
(* Vocabulary of the properties.                                           *)
(***************************************************************************)
StartsWith(s, prefix) ==
    Len(s) >= Len(prefix) /\ SubSeq(s, 1, Len(prefix)) = prefix

Contains(s, part) ==
    \E k \in 1..(Len(s) - Len(part) + 1) : SubSeq(s, k, k + Len(part) - 1) = part

Emitted(i) == pc[i] = "ResultEmitted"

\* the text of the ToolResult an invocation has returned
ResultText(i) == results[i][1].content[1].text

\* a value of the shape {content: [{type: "text", text: string}]}
WellFormedToolResult(r) ==
    /\ DOMAIN r = {"content"}
    /\ Len(r.content) = 1
    /\ DOMAIN r.content[1] = {"type", "text"}
    /\ r.content[1].type = "text"
    /\ r.content[1].text.t = "string"

\* the invocation has a response with this status class, and its body was read
GotResponse(i) == response[i] # << >>
SuccessStatus(i) == GotResponse(i) /\ response[i][1].status \in 200..299
BodyRead(i) == bodyState[i] = "done" /\ body[i] # << >>

\* the bodies that are a JSON object whose choices[0].message.content is a
\* string, and that string
StringContentBodies == {RawOk, RawEmptyContent}
StringContent(raw) == IF raw = RawOk THEN "1. Title..." ELSE ""

(***************************************************************************)
(* C1. No propagation: whatever the upstream does, every value the handler *)
(* returns has the shape {content: [one item of type "text" whose text is  *)
(* a string]}.                                                             *)
(***************************************************************************)
C1_NoPropagation ==
    \A i \in Invocations :
        /\ Emitted(i) => Len(results[i]) = 1
        /\ \A k \in DOMAIN results[i] : WellFormedToolResult(results[i][k])

(***************************************************************************)
(* C2. Termination under the deadline: an invocation that has sent its     *)
(* request eventually emits its result, in whichever phase it is suspended.*)
(***************************************************************************)
C2_TerminatesUnderDeadline ==
    \A i \in Invocations : (pc[i] = "RequestSent") ~> Emitted(i)

(***************************************************************************)
(* C3. Timeout bound: an invocation whose request the upstream never       *)
(* answers (no response, no fault of the transport) has its timer fire,    *)
(* its request aborted, and returns the apology preamble followed by the   *)
(* timeout message naming 25000.  Stated in two parts: no request stays in *)
(* flight forever, and an invocation whose request is no longer in flight  *)
(* was answered by the upstream or has returned the timeout result.        *)
(***************************************************************************)
TimedOutResult(i) ==
    /\ Emitted(i)
    /\ timer[i] = "fired"
    /\ aborted[i]
    /\ fetchState[i] = "rejected"
    /\ results[i] = << [content |-> << [type |-> "text", text |->
           Str(ApologyPreamble \o "Request timed out. (25000ms)")] >>] >>

UpstreamAnswered(i) ==
    \/ fetchState[i] = "fulfilled"
    \/ fetchState[i] = "rejected" /\ ~aborted[i]

C3_TimeoutBound ==
    /\ \A i \in Invocations : []<>(pc[i] # "RequestSent")
    /\ [](\A i \in Invocations :
            pc[i] \notin {"Idle", "Rejected", "RequestSent"} =>
                (UpstreamAnswered(i) \/ TimedOutResult(i)))

C3_Witness ==
    \E i \in Invocations :
        /\ TimedOutResult(i)
        /\ StartsWith(ResultText(i).s, ApologyPreamble)
        /\ Contains(ResultText(i).s, "25000")

(***************************************************************************)
(* C4. Credential gating: a call of registerSearchCareJobsTool with the    *)
(* credential absent (undefined or empty) leaves the tool table without an *)
(* entry named search_care_jobs, emits exactly one warning and returns     *)
(* without an error; with the credential present the table has exactly one *)
(* entry of that name after the call and no warning is emitted. Without an *)
(* entry no invocation happens.                                            *)
(***************************************************************************)
CredentialAbsent(v) == v = Undefined \/ v = Str("")

NamedEntries(table) == Cardinality({k \in DOMAIN table : table[k].name = "search_care_jobs"})

RegisterStep == Len(regOutcomes') = Len(regOutcomes) + 1

C4_CredentialGating ==
    /\ [](NamedEntries(toolTable) = 0 => \A i \in Invocations : pc[i] = "Idle")
    /\ [][RegisterStep =>
            IF CredentialAbsent(openRouterApiKey)
            THEN /\ NamedEntries(toolTable') = 0
                 /\ toolTable' = toolTable
                 /\ Len(warnings') = Len(warnings) + 1
                 /\ regOutcomes'[Len(regOutcomes')] = "returned"
            ELSE /\ NamedEntries(toolTable') = 1
                 /\ Len(toolTable') = 1
                 /\ warnings' = warnings]_vars

C4_Witness ==
    /\ CredentialAbsent(openRouterApiKey)
    /\ Len(regOutcomes) = 1
    /\ Len(warnings) = 1
    /\ toolTable = << >>

(***************************************************************************)
(* C5. Success path: when the upstream returns a success status and a JSON *)
(* body whose choices[0].message.content is a string, the text of the      *)
(* result is that string exactly; on every other path the text starts with *)
(* the apology preamble.                                                   *)
(***************************************************************************)
StringContentCase(i) ==
    SuccessStatus(i) /\ BodyRead(i) /\ body[i][1] \in StringContentBodies

C5_SuccessPath ==
    \A i \in Invocations :
        Emitted(i) =>
            IF StringContentCase(i)
            THEN ResultText(i) = Str(StringContent(body[i][1]))
            ELSE /\ ResultText(i).t = "string"
                 /\ StartsWith(ResultText(i).s, ApologyPreamble)

(***************************************************************************)
(* C6. Malformed response: when the upstream returns a success status and  *)
(* a body that is not a JSON object with a string at                       *)
(* choices[0].message.content, the text of the result is the apology       *)
(* preamble followed by the could-not-extract message.                     *)
(***************************************************************************)
C6_MalformedResponse ==
    \A i \in Invocations :
        ( /\ Emitted(i)
          /\ SuccessStatus(i)
          /\ BodyRead(i)
          /\ body[i][1] \notin StringContentBodies )
        => ResultText(i) = Str(ApologyPreamble \o ExtractFailedText)

(***************************************************************************)
(* C7. HTTP error, as stated: for a response with a non-success status the *)
(* JSON path is never taken and the result carries the apology preamble,   *)
(* the status code, the status text and the response body.                 *)
(***************************************************************************)
StatusCodeText(n) == IF n = 500 THEN "500" ELSE "200"

HttpErrorText(r, raw) ==
    ApologyPreamble \o "OpenRouter API request failed: " \o StatusCodeText(r.status)
        \o " " \o r.statusText \o " - " \o raw

C7_HttpError ==
    \A i \in Invocations :
        (GotResponse(i) /\ ~SuccessStatus(i)) =>
            /\ pc[i] # "AwaitJson"
            /\ Emitted(i) =>
                   /\ BodyRead(i)
                   /\ ResultText(i) = Str(HttpErrorText(response[i][1], body[i][1]))

(***************************************************************************)
(* C7, amended. For a response with a non-success status the JSON path is  *)
(* never taken; if the body is read as text, the result is the preamble    *)
(* followed by the status code, the status text and the body; if reading   *)
(* the body fails, the result is the preamble followed by the message of   *)
(* the fault of the read.                                                  *)
(***************************************************************************)
C7_HttpErrorBodyRead ==
    \A i \in Invocations :
        (GotResponse(i) /\ ~SuccessStatus(i)) =>
            /\ pc[i] \in {"AwaitText", "ResultEmitted"}
            /\ (Emitted(i) /\ BodyRead(i)) =>
                   ResultText(i) = Str(HttpErrorText(response[i][1], body[i][1]))
            /\ (Emitted(i) /\ ~BodyRead(i)) =>
                   \E e \in BodyReadFaults : ResultText(i) = Str(ApologyPreamble \o e.message)

C7_Witness ==
    \E i \in Invocations :
        /\ Emitted(i)
        /\ GotResponse(i)
        /\ response[i][1].status = 500
        /\ BodyRead(i)
        /\ Contains(ResultText(i).s, "500")
        /\ Contains(ResultText(i).s, "server error")

(***************************************************************************)
(* C8. Resource cleanup: the deadline timer of an invocation that has      *)
(* emitted its result is not scheduled, and the timers that are scheduled  *)
(* are as many as the invocations awaiting their request.                  *)
(***************************************************************************)
PendingTimers == {i \in Invocations : timer[i] = "pending"}
AwaitingRequest == {i \in Invocations : pc[i] = "RequestSent"}

C8_ResourceCleanup ==
    /\ \A i \in Invocations : Emitted(i) => timer[i] \in {"cleared", "fired"}
    /\ Cardinality(PendingTimers) = Cardinality(AwaitingRequest)

C8_Witness ==
    \E i, j \in Invocations :
        /\ Emitted(i)
        /\ timer[i] = "cleared"
        /\ fetchState[i] = "rejected"
        /\ pc[j] = "RequestSent"
        /\ timer[j] = "pending"

(***************************************************************************)
(* C9. Credential binding, as stated: a call of registerSearchCareJobsTool *)
(* decides on the credential that the configuration state holds at the     *)
(* moment of the call, the handler it registers is bound over that value,  *)
(* and every request carries the bound value as the bearer token.          *)
(***************************************************************************)
CarriesBearer(table, key) ==
    \A i \in Invocations : \A k \in DOMAIN table[i] :
        table[i][k].headers.Authorization = "Bearer " \o key.s

C9_BoundAtRegistration ==
    /\ [][RegisterStep =>
            /\ (warnings' = warnings) <=> ~CredentialAbsent(env)
            /\ NamedEntries(toolTable') > 0 => openRouterApiKey = env]_vars
    /\ [](NamedEntries(toolTable) > 0 => CarriesBearer(requests, openRouterApiKey))

(***************************************************************************)
(* C9, amended. The credential is read once, when the module is loaded:    *)
(* the value the configuration state holds then is the one the gate        *)
(* decides on at every later call of registerSearchCareJobsTool and the    *)
(* one every request carries as the bearer token, whatever the             *)
(* configuration state becomes afterwards.                                 *)
(***************************************************************************)
C9_BoundAtLoad ==
    /\ openRouterApiKey = env
    /\ [][ /\ openRouterApiKey' = openRouterApiKey
           /\ RegisterStep => ((warnings' = warnings) <=> ~CredentialAbsent(openRouterApiKey))
           /\ CarriesBearer(requests', openRouterApiKey) ]_vars

C9_Witness ==
    \E i \in Invocations :
        /\ env # openRouterApiKey
        /\ pc[i] = "RequestSent"
        /\ requests[i][1].headers.Authorization = "Bearer sk-or-A"

(***************************************************************************)
(* C10. Non-empty location, as stated: whenever the handler has run or a   *)
(* request has been sent, the location is a non-empty string.              *)
(***************************************************************************)
HandlerRan(i) == pc[i] \notin {"Idle", "Rejected"}
LocationOf(i) == IF "location" \in DOMAIN args[i].f THEN args[i].f.location ELSE Undefined

C10_NonEmptyLocation ==
    \A i \in Invocations :
        (HandlerRan(i) \/ requests[i] # << >>) =>
            LocationOf(i).t = "string" /\ LocationOf(i).s # ""

(***************************************************************************)
(* C10, amended. The registered schema accepts any string for location,    *)
(* the empty one included: whenever the handler has run or a request has   *)
(* been sent, the location is a string, and the request names it in its    *)
(* user prompt; arguments without a string location never reach the        *)
(* handler.                                                                *)
(***************************************************************************)
C10_StringLocation ==
    \A i \in Invocations :
        /\ (HandlerRan(i) \/ requests[i] # << >>) =>
               /\ LocationOf(i).t = "string"
               /\ Len(requests[i]) = 1
               /\ StartsWith(requests[i][1].body.messages[2].content,
                             "Find 3 care partner job listings near \""
                                 \o LocationOf(i).s \o "\" in ")
        /\ pc[i] = "Rejected" => LocationOf(i).t # "string" /\ requests[i] = << >>

C10_Witness ==
    \E i \in Invocations :
        /\ pc[i] = "RequestSent"
        /\ LocationOf(i) = Str("")
        /\ requests[i] # << >>

\* the result of the invocation is the apology: it went down a fault path
FaultResult(i) ==
    /\ Emitted(i)
    /\ results[i] # << >>
    /\ ResultText(i).t = "string"
    /\ StartsWith(ResultText(i).s, ApologyPreamble)

\* what follows the apology preamble in the text of a fault result
ReportedFault(i) ==
    SubSeq(ResultText(i).s, Len(ApologyPreamble) + 1, Len(ResultText(i).s))

\* the entries of the error log of an invocation that bear this label
LogEntries(i, label) == {k \in 1..Len(errlog[i]) : errlog[i][k].label = label}

(***************************************************************************)
(* C11, its safety part: an invocation sends at most one upstream request  *)
(* and a request once sent is never followed by another; it returns at     *)
(* most one ToolResult, and what it returned never changes; on a fault     *)
(* path the result has one content item that holds the apology and the     *)
(* fault once, and the fault is logged once.                               *)
(***************************************************************************)
C11_AtMostOnce ==
    /\ [](\A i \in Invocations :
            /\ Len(requests[i]) <= 1
            /\ Len(results[i]) <= 1
            /\ Emitted(i) <=> Len(results[i]) = 1
            /\ HandlerRan(i) <=> Len(requests[i]) = 1
            /\ FaultResult(i) =>
                   /\ Len(results[i][1].content) = 1
                   /\ ~Contains(ReportedFault(i), ApologyPreamble)
                   /\ Cardinality(LogEntries(i, SearchErrorLabel)) = 1)
    /\ [][\A i \in Invocations :
            /\ requests[i] # << >> => requests'[i] = requests[i]
            /\ results[i] # << >> => results'[i] = results[i]]_vars

(***************************************************************************)
(* C11. Single attempt, as stated: every invocation whose handler runs     *)
(* sends one upstream request and no second one, and returns exactly one   *)
(* ToolResult: it comes to return one, and never returns another.          *)
(***************************************************************************)
C11_SingleAttempt ==
    /\ [](\A i \in Invocations : Len(requests[i]) <= 1 /\ Len(results[i]) <= 1)
    /\ \A i \in Invocations : HandlerRan(i) ~> (Len(results[i]) = 1)

\* what an invocation holds of its own: its call of fetchWithTimeout (timer,
\* cancellation token, request) and what the upstream did to it
OwnState(i) ==
    <<pc[i], args[i], timer[i], aborted[i], fetchState[i], requests[i], response[i],
      bodyState[i], body[i], rejection[i], results[i], errlog[i]>>

\* a step touches the invocation
Touched(i) == OwnState(i)' # OwnState(i)

\* the upstream response of an invocation and its deadline
OwnUpstream(i) == <<fetchState[i], response[i], bodyState[i], body[i], rejection[i]>>
OwnDeadline(i) == <<timer[i], aborted[i]>>

(***************************************************************************)
(* C12. Invocation independence: no step touches two invocations; the      *)
(* step in which the timer of an invocation fires signals cancellation to  *)
(* that invocation and rejects its request, and no other; the step that    *)
(* completes a request clears the timer of that invocation only; and two   *)
(* finished invocations with the same upstream response and the same       *)
(* deadline state have the same result and the same log.                   *)
(***************************************************************************)
C12_Independence ==
    /\ [][\A i \in Invocations :
            /\ Touched(i) => \A j \in Invocations \ {i} : ~Touched(j)
            /\ (timer[i] = "pending" /\ timer'[i] = "fired") =>
                   /\ aborted'[i]
                   /\ \A j \in Invocations \ {i} :
                          aborted'[j] = aborted[j] /\ fetchState'[j] = fetchState[j]
            /\ (timer[i] = "pending" /\ timer'[i] = "cleared") =>
                   \A j \in Invocations \ {i} : timer'[j] = timer[j]
            /\ (~aborted[i] /\ aborted'[i]) => timer[i] = "pending"]_vars
    /\ [](\A i, j \in Invocations :
            (/\ Emitted(i) /\ Emitted(j)
             /\ OwnUpstream(i) = OwnUpstream(j)
             /\ OwnDeadline(i) = OwnDeadline(j))
            => (results[i] = results[j] /\ errlog[i] = errlog[j]))

\* two invocations overlapped and came out differently: the first is still
\* reading its body with its timer cleared and no cancellation, while the
\* second, called after it, has had its timer fire and has returned
C12_Witness ==
    \E i, j \in Invocations :
        /\ i < j
        /\ pc[i] = "AwaitJson" /\ timer[i] = "cleared" /\ ~aborted[i]
        /\ Emitted(j) /\ timer[j] = "fired" /\ aborted[j]

\* the race of an invocation is decided: by the request, or by the timer
RequestWon(i) == timer[i] = "cleared"
TimerWon(i) == timer[i] = "fired"

(***************************************************************************)
(* C13. Race resolution: no race stays open forever, it has one winner and *)
(* the winner stays: when the request settles while the timer is pending   *)
(* the timer is cleared in the same step, and from then on cancellation is *)
(* never signalled to that invocation; when the timer fires first, the     *)
(* request is rejected by the abort, no response is ever taken, and the    *)
(* invocation returns the apology.                                         *)
(***************************************************************************)
C13_RaceResolution ==
    /\ [](\A i \in Invocations :
            /\ RequestWon(i) =>
                   /\ ~aborted[i]
                   /\ fetchState[i] \in {"fulfilled", "rejected"}
            /\ TimerWon(i) =>
                   /\ aborted[i]
                   /\ fetchState[i] = "rejected"
                   /\ rejection[i] = << AbortFault >>
                   /\ ~GotResponse(i)
                   /\ FaultResult(i)
            /\ fetchState[i] = "pending" <=> timer[i] = "pending")
    /\ [][\A i \in Invocations :
            /\ (RequestWon(i) \/ TimerWon(i)) =>
                   (timer'[i] = timer[i] /\ aborted'[i] = aborted[i])
            /\ (fetchState[i] = "pending" /\ fetchState'[i] # "pending") =>
                   (RequestWon(i)' \/ TimerWon(i)')]_vars
    /\ \A i \in Invocations : []<>(timer[i] # "pending")

\* both outcomes of the race: one invocation whose request settled first and
\* went on to return, another whose timer fired first
C13_Witness ==
    \E i, j \in Invocations :
        /\ RequestWon(i) /\ Emitted(i) /\ ~aborted[i]
        /\ TimerWon(j) /\ Emitted(j) /\ aborted[j]

\* a promise of the invocation rejected: fetch or the read of the body
Rejected(i) == rejection[i] # << >>

\* fetch rejected with a fault that line 26 identifies as cancellation
IdentifiedAsCancellation(i) ==
    /\ Rejected(i)
    /\ fetchState[i] = "rejected"
    /\ rejection[i][1].name = "AbortError"

\* the bodies with which a success response is answered without a fault
AnsweredBodies == {RawOk, RawNumberContent}

\* the invocation has finished and a fault was raised on its way
FaultPath(i) ==
    /\ Emitted(i)
    /\ \/ Rejected(i)
       \/ BodyRead(i) /\ ~SuccessStatus(i)
       \/ BodyRead(i) /\ SuccessStatus(i) /\ body[i][1] \notin AnsweredBodies

\* the message of the fault of a fault path, told from what the upstream did
FaultMessage(i) ==
    IF IdentifiedAsCancellation(i) THEN "Request timed out. (25000ms)"
    ELSE IF Rejected(i) THEN rejection[i][1].message
    ELSE IF ~SuccessStatus(i)
         THEN "OpenRouter API request failed: " \o StatusCodeText(response[i][1].status)
                  \o " " \o response[i][1].statusText \o " - " \o body[i][1]
    ELSE IF body[i][1] = RawNull
         THEN "Cannot read properties of null (reading 'choices')"
    ELSE "Could not extract the message from the OpenRouter response."

(***************************************************************************)
(* C14. Fault text format: on every fault path the text of the ToolResult  *)
(* is the apology preamble followed by the message of the fault, and       *)
(* nothing else; a fault with which fetch rejects and that is not          *)
(* identified as cancellation reaches the catch of the handler as the      *)
(* same fault (it is the fault logged there) and its message is the one    *)
(* in the text.                                                            *)
(***************************************************************************)
C14_FaultTextFormat ==
    \A i \in Invocations :
        /\ FaultPath(i) =>
               ResultText(i) = Str(ApologyPreamble \o FaultMessage(i))
        /\ (Emitted(i) /\ fetchState[i] = "rejected" /\ ~IdentifiedAsCancellation(i)) =>
               /\ errlog[i] = << ErrorLog(SearchErrorLabel, rejection[i][1]) >>
               /\ ResultText(i) = Str(ApologyPreamble \o rejection[i][1].message)

\* a connection fault of the transport has been reported with its own message
C14_Witness ==
    \E i \in Invocations :
        /\ FaultPath(i)
        /\ fetchState[i] = "rejected"
        /\ ~IdentifiedAsCancellation(i)
        /\ rejection[i][1].name = "FetchError"
        /\ ResultText(i) = Str(ApologyPreamble \o rejection[i][1].message)

\* a success status with a body that deviates from a JSON object with a
\* string at choices[0].message.content
MalformedResponse(i) ==
    /\ Emitted(i)
    /\ SuccessStatus(i)
    /\ body[i] # << >>
    /\ body[i][1] \notin StringContentBodies

\* the log of the invocation ends with the entry of the fault that its
\* result reports
FaultLoggedLast(i) ==
    /\ errlog[i] # << >>
    /\ LET e == errlog[i][Len(errlog[i])] IN
           /\ e.level = "error"
           /\ e.label = SearchErrorLabel
           /\ IsError(e.arg)
           /\ e.arg.message = ReportedFault(i)

\* the body is logged, and before any entry of the fault
BodyLoggedFirst(i) ==
    /\ errlog[i] # << >>
    /\ errlog[i][1].label = StructureErrorLabel
    /\ LogEntries(i, StructureErrorLabel) = {1}

(***************************************************************************)
(* C15, the part that holds: nothing is logged after the ToolResult is     *)
(* returned; a result that is the apology has the log entry of its fault   *)
(* as the last entry; a result that is not the apology has an empty log;   *)
(* when the fault is the could-not-extract fault, the parsed body was      *)
(* logged first.                                                           *)
(***************************************************************************)
C15_LogBeforeReturn ==
    /\ [](\A i \in Invocations :
            /\ ~Emitted(i) => errlog[i] = << >>
            /\ FaultResult(i) => FaultLoggedLast(i)
            /\ (Emitted(i) /\ ~FaultResult(i)) => errlog[i] = << >>
            /\ (FaultResult(i) /\ ReportedFault(i) = ExtractFailedText) =>
                   /\ Len(errlog[i]) = 2
                   /\ errlog[i][1] = ErrorLog(StructureErrorLabel, JsonValue(body[i][1])))
    /\ [][\A i \in Invocations : Emitted(i) => errlog'[i] = errlog[i]]_vars

(***************************************************************************)
(* C15. Logging order, as stated: every finished fault path has logged its *)
(* fault; every malformed response has had its body logged first, before   *)
(* the fault; a success path has logged nothing.                           *)
(***************************************************************************)
C15_LoggingOrder ==
    \A i \in Invocations :
        /\ FaultPath(i) => FaultLoggedLast(i)
        /\ MalformedResponse(i) => (BodyLoggedFirst(i) /\ FaultLoggedLast(i))
        /\ (Emitted(i) /\ ~FaultPath(i)) => errlog[i] = << >>

\* the result of the invocation carries the timeout message
ReportsTimeout(i) ==
    /\ Emitted(i)
    /\ ResultText(i) = Str(ApologyPreamble \o "Request timed out. (25000ms)")

(***************************************************************************)
(* C16. Timeout classification is exact: a finished invocation reports the *)
(* timeout (the message naming 25000 ms) if and only if its own timer      *)
(* fired before its request completed; a fault with which the transport    *)
(* rejects while the timer has not fired is never reported as a timeout;   *)
(* and the fault of fetch is identified as cancellation exactly when the   *)
(* own timer fired.                                                        *)
(***************************************************************************)
C16_ExactClassification ==
    \A i \in Invocations :
        Emitted(i) =>
            /\ ReportsTimeout(i) <=> (TimerWon(i) /\ aborted[i])
            /\ (fetchState[i] = "rejected" /\ ~TimerWon(i)) => ~ReportsTimeout(i)
            /\ IdentifiedAsCancellation(i) <=> TimerWon(i)

\* both classes at once: one invocation whose timer fired reports the
\* timeout, another whose request the transport failed with its timer still
\* pending reports that fault and not a timeout
C16_Witness ==
    \E i, j \in Invocations :
        /\ Emitted(i) /\ TimerWon(i) /\ ReportsTimeout(i)
        /\ Emitted(j) /\ fetchState[j] = "rejected" /\ RequestWon(j)
        /\ rejection[j][1] \in TransportFaults
        /\ ~ReportsTimeout(j)
        /\ ResultText(j) = Str(ApologyPreamble \o rejection[j][1].message)

====
